---- MODULE Spec2Model ----
(***************************************************************************)
(* Model of the attendance system's session registry (Run.py), its HTTP    *)
(* handlers (app.py) and the persistence calls they make                   *)
(* (firebase_config.py).  Request threads call into the registry           *)
(* concurrently; every registry function runs under the module lock        *)
(* _sessions_lock.  Each function is split into the steps a thread switch  *)
(* can separate (lock acquisition, the check, each dictionary read and     *)
(* write), so that the lock, and not the model, is what makes a function   *)
(* atomic.                                                                 *)
(***************************************************************************)
EXTENDS Integers, Sequences, FiniteSets, TLC

(* ------------------------------ bounds -------------------------------- *)

\* Number of HTTP requests issued in one behaviour.
MaxCalls == 3

\* Largest presence counter a record call is let to reach.
MaxCount == 2

\* Largest reading of the wall clock, in ticks.
MaxTime == 1

\* Longest list of recognised names passed to one record call.
MaxNames == 2

\* The most embeddings one person has in the store.
MaxVectors == 2
MaxFaces == 2

\* Clock ticks per second (the clock is finer than the whole seconds of a
\* duration).
TicksPerSecond == 2

(* ----------------------------- universe ------------------------------- *)

Threads == {"t1", "t2"}

NoThread == "none"

Keys == {"CS101", "CS102"}

\* A falsy class_id (None or ""): `if not class_id`.
NoKey == ""

Students == {"alice", "bob"}

\* main.py:33,43: the identity find_match returns for a non-match.
MatcherSentinel == "Unknown"

\* A sentinel spelled unlike the Matcher's.
LowercaseSentinel == "unknown"

\* Run.py:136: the name record_recognition_results_for_class skips.
RecordSentinel == "Unknown"

\* What a recognition can name: a student or the Matcher's sentinel.
Identities == Students \cup {MatcherSentinel}

\* Python's None for a session_name; names are tuples of string parts so
\* that the defaulted name f"{class_id}_session" can be built.
NoName == << >>

GivenNames == {<<"Lecture1">>}

\* Python's None for a start_time.
NoTime == -1

\* Run.py:43: session_name or f"{class_id}_session"
DefaultedName(session_name, class_id) ==
    IF session_name # NoName THEN session_name ELSE <<class_id, "_session">>

\* An empty dict of name -> count.
EmptyDict == [n \in {} |-> 0]

NameLists == UNION {[1..n -> Identities] : n \in 0..MaxNames}

(* --------------------------- embeddings ------------------------------- *)

\* Embeddings are vectors of one length, so that the cosine of two of them
\* is their dot product over that length squared.
NormSquared == 25

\* The embeddings a store can hold.
Vectors == {<<5, 0>>, <<3, 4>>, <<0, 5>>, <<-3, 4>>}

\* The embeddings of the faces met in an image (main.py:128).
Faces == {<<5, 0>>, <<0, -5>>}

\* main.py:38: cosine_similarity([a], [b])[0][0], in units of 1/NormSquared.
cosine_similarity(a, b) == a[1] * b[1] + a[2] * b[2]

\* main.py:14: SIMILARITY_THRESHOLD = 0.6, in units of 1/NormSquared.
SIMILARITY_THRESHOLD == 15

VectorLists == UNION {[1..n -> Vectors] : n \in 0..MaxVectors}

\* The orders in which a dict can hold some of the students as keys.
PersonOrders ==
    {o \in UNION {[1..n -> Students] : n \in 0..Cardinality(Students)} :
        \A i, j \in DOMAIN o : i # j => o[i] # o[j]}

\* The dicts person -> list of embeddings, as sequences in dict order.
Stores ==
    UNION {{[i \in DOMAIN o |-> [person |-> o[i], embeddings |-> e[i]]] :
               e \in [DOMAIN o -> VectorLists]} : o \in PersonOrders}

\* set(embeddings), the persons a store has.
PersonsOf(db) == {db[i].person : i \in DOMAIN db}

\* The (person, embedding) pairs of a store in the order in which the
\* nested loops of main.py:36-37 meet them.
RECURSIVE Flatten(_)
Flatten(db) ==
    IF db = << >> THEN << >>
    ELSE [j \in DOMAIN Head(db).embeddings |->
             [person |-> Head(db).person,
              embedding |-> Head(db).embeddings[j]]] \o Flatten(Tail(db))

\* The orders in which a dict can hold exactly the persons P as keys.
OrdersOf(P) == {o \in PersonOrders : {o[i] : i \in DOMAIN o} = P}

\* What a student's folder can hold (Student_Manage.py:33-50): images on
\* which no embedding can be taken, or pictures of one of two faces.
ImageSets == {"unusable", "front", "side"}

\* EncodeGenerator.py:54-91: the embeddings the images of a folder yield,
\* cut down to none (every image raises and is skipped) or one.
Encoded(images) ==
    CASE images = "unusable" -> << >>
      [] images = "front" -> << <<5, 0>> >>
      [] images = "side" -> << <<3, 4>> >>

EncodedLists == {Encoded(images) : images \in ImageSets}

\* os.listdir(db_path): the folders there are.
Folders(dir) == DOMAIN dir

\* EncodeGenerator.py:43-93: the entries the persons P of the folders dir
\* are given, in any order of os.listdir.
EncodingsOf(dir, P) ==
    {[i \in DOMAIN o |-> [person |-> o[i], embeddings |-> Encoded(dir[o[i]])]] :
        o \in OrdersOf(P)}


\* A prune that removes nobody.
PruneNobody(embeddings, current_students) == embeddings

\* EncodeGenerator.py:96-100: drop the persons that have no folder.
Prune(embeddings, current_students) ==
    SelectSeq(embeddings, LAMBDA entry : entry.person \in current_students)

(* ------------------------- dictionaries ------------------------------- *)

\* d[k] = v on a Python dict: adds the key or replaces its value.
DictSet(d, k, v) == [x \in DOMAIN d \cup {k} |-> IF x = k THEN v ELSE d[x]]

\* d.get(k, dflt)
DictGet(d, k, dflt) == IF k \in DOMAIN d THEN d[k] ELSE dflt

\* d without the key k
DictDel(d, k) == [x \in DOMAIN d \ {k} |-> d[x]]

RECURSIVE SumOver(_, _)
SumOver(d, S) ==
    IF S = {} THEN 0
    ELSE LET x == CHOOSE y \in S : TRUE IN d[x] + SumOver(d, S \ {x})

\* Sum of the values of a dict of counts.
DictSum(d) == SumOver(d, DOMAIN d)

\* Number of positions of names[1..upto] holding `name`.
Occurrences(names, name, upto) ==
    Cardinality({j \in 1..upto : names[j] = name})

(* ------------------------------ slots --------------------------------- *)

\* A slot that stores the session_name argument as it came.
ActiveSlotUndefaulted(class_id, session_name, t) ==
    [is_active |-> TRUE,
     session_name |-> session_name,
     attendance_records |-> EmptyDict,
     start_time |-> t]

\* Run.py:41-46: the slot start_session writes.
ActiveSlot(class_id, session_name, t) ==
    [is_active |-> TRUE,
     session_name |-> DefaultedName(session_name, class_id),
     attendance_records |-> EmptyDict,
     start_time |-> t]

\* A stop that only drops the activity flag.
StoppedSlotHalfReset(sess) == [sess EXCEPT !.is_active = FALSE]

\* Run.py:78-83: the slot stop_session leaves behind.
StoppedSlot(sess) ==
    [is_active |-> FALSE,
     session_name |-> NoName,
     attendance_records |-> EmptyDict,
     start_time |-> NoTime]

\* What the .get() calls read from a missing slot (Run.py:92 `or {}`): no
\* activity, no name, no counters, no start time.
NoSlot ==
    [is_active |-> FALSE,
     session_name |-> NoName,
     attendance_records |-> EmptyDict,
     start_time |-> NoTime]

\* A clear that spares an active session.
ClearedUnlessActive(sess) ==
    IF sess.is_active THEN sess
    ELSE [is_active |-> FALSE,
          session_name |-> NoName,
          attendance_records |-> EmptyDict,
          start_time |-> NoTime]

\* Run.py:160-165: the slot clear_session_data(class_id) writes.
ClearedSlot(sess) ==
    [is_active |-> FALSE,
     session_name |-> NoName,
     attendance_records |-> EmptyDict,
     start_time |-> NoTime]

(* ------------------------------ state --------------------------------- *)

VARIABLES
    sessions,          \* Run.py:19  _sessions_by_class: class_id -> slot
    lock,              \* Run.py:18  _sessions_lock: the thread holding it
    firebase_manager,  \* app.py:63-68  whether Firebase was initialised
    attendance_docs,   \* Firestore collection 'attendance', by record id
    session_docs,      \* Firestore collection 'sessions'
    now,               \* the wall clock read by datetime.now()
    pc,                \* where each request thread stands
    req,               \* the request each thread serves
    loc,               \* each thread's local variables
    result,            \* what each thread's last request returned
    calls,             \* requests issued so far
    hist,              \* history: per key, how often each student was named
                       \*   by the record calls that reported 'recorded'
                       \*   since the key's session started
    epoch,             \* history: per key, the 'started' outcomes since the
                       \*   key last had no active session
    embeddings_pkl,    \* main.py:13  the file embeddings.pkl: the pickled
                       \*   dict person -> list of embeddings, in dict order
    images_dir         \* Student_Manage.py:7  the student folders under
                       \*   "Smart Attendance System/Images": folder name
                       \*   -> the images in it

\* The files on disk.
disk == <<embeddings_pkl, images_dir>>

vars == <<sessions, lock, firebase_manager, attendance_docs, session_docs,
          now, pc, req, loc, result, calls, hist, epoch, embeddings_pkl,
          images_dir>>

\* Run.py:68-76: the summary stop_session returns.
NoSummary ==
    [session_name |-> NoName, class_id |-> NoKey,
     attendance_records |-> EmptyDict, start_time |-> NoTime,
     end_time |-> NoTime, duration_seconds |-> 0]

NoReq == [op |-> "none", class_id |-> NoKey]

\* Locals of the function or handler a thread is in.
\*   names      recognized_names (Run.py:126)
\*   i          position in recognized_names (Run.py:135)
\*   tmp        the value records.get(name, 0) returned (Run.py:137)
\*   summary    the summary being built (Run.py:68)
\*   stop_resp  what Run.stop_session returned to the handler (app.py:163)
\*   todo       attendance_records items still to save (app.py:171)
\*   success_count  app.py:169
NoLoc ==
    [names |-> << >>, i |-> 0, tmp |-> 0, summary |-> NoSummary, stop_resp |-> "none",
     todo |-> << >>, success_count |-> 0, session_name |-> NoName,
     face |-> << >>, embeddings_db |-> << >>, best_match |-> "none",
     best_score |-> 0, embeddings |-> << >>, attendance_records |-> EmptyDict,
     faces |-> << >>, results |-> << >>]

\* A response: its JSON status, HTTP code and the payload fields used.
Resp(status, code) ==
    [status |-> status, code |-> code, summary |-> NoSummary,
     session_active |-> FALSE, updated |-> EmptyDict, records_saved |-> 0,
     total_students |-> 0, name |-> "none", confidence |-> 0,
     names |-> << >>, results |-> << >>]

NoResult == Resp("none", 0)

NoHist == [n \in Students |-> 0]

\* sess and sess.get("is_active") on _sessions_by_class.get(class_id)
IsActive(S, k) == k \in DOMAIN S /\ S[k].is_active

InitSessions ==
    /\ sessions = << >>
    /\ lock = NoThread
    /\ firebase_manager \in BOOLEAN
    /\ attendance_docs = << >>
    /\ session_docs = << >>
    /\ now = 0
    /\ pc = [t \in Threads |-> "idle"]
    /\ req = [t \in Threads |-> NoReq]
    /\ loc = [t \in Threads |-> NoLoc]
    /\ result = [t \in Threads |-> NoResult]
    /\ calls = 0
    /\ hist = [k \in Keys |-> NoHist]
    /\ epoch = [k \in Keys |-> 0]

\* No student is enrolled: manage_embeddings has written an empty dict for
\* an empty image folder (EncodeGenerator.py:111).
Init ==
    /\ InitSessions
    /\ embeddings_pkl = << >>
    /\ images_dir = EmptyDict

(* ----------------------- calls and returns ----------------------------- *)

\* The class_id of the request thread t serves.
KeyOf(t) == req[t].class_id

\* A request is drawn with its class_id; its other arguments (session_name,
\* recognized_names) are inputs too, drawn where the code first reads them,
\* which no other thread can tell from drawing them at the call.
RequestsOf(ops, keys) == {[op |-> o, class_id |-> k] : o \in ops, k \in keys}

\* The functions of Run.py, called directly on one class (or with a falsy
\* class_id).
RunRequests ==
    RequestsOf({"start", "stop", "status", "clear", "record"},
               {"CS101", NoKey})

\* The routes of app.py that start and stop sessions, and the recording of
\* recognised names, on one class (or with a falsy classId).
AppRequests ==
    RequestsOf({"h_start", "h_stop", "record"}, {"CS101", NoKey})

\* The first label of the function or route a request enters.
EntryLabel(op) ==
    CASE op = "start" -> "start_enter"
      [] op = "stop" -> "stop_enter"
      [] op = "status" -> "status_enter"
      [] op = "clear" -> "clear_enter"
      [] op = "record" -> "record_enter"
      [] op = "h_start" -> "hstart_enter"
      [] op = "h_stop" -> "hstop_enter"
      [] op = "h_recognize" -> "hrecognize_enter"
      [] op = "recognize" -> "recognize_enter"
      [] op = "recognize_faces" -> "faces_enter"
      [] op = "add" -> "add_enter"
      [] op = "remove" -> "remove_enter"
      [] op = "update" -> "update_enter"
      [] op = "mark" -> "mark_enter"

\* A response stays in `result` for the one state in which the return is
\* observed; nothing else moves until it has been handed to the client.
\* Handing it over touches no shared state, so no interleaving is lost.
Quiet == \A u \in Threads : pc[u] # "done"

Deliver(t) ==
    /\ pc[t] = "done"
    /\ pc' = [pc EXCEPT ![t] = "idle"]
    /\ result' = [result EXCEPT ![t] = NoResult]
    /\ req' = [req EXCEPT ![t] = NoReq]
    /\ loc' = [loc EXCEPT ![t] = NoLoc]
    /\ UNCHANGED <<sessions, lock, firebase_manager, disk, attendance_docs,
                   session_docs, now, calls, hist, epoch>>

\* A thread with no request in hand takes the next one.
Enter(t, r) ==
    /\ Quiet
    /\ pc[t] = "idle"
    /\ req' = [req EXCEPT ![t] = r]
    /\ pc' = [pc EXCEPT ![t] = EntryLabel(r.op)]
    /\ UNCHANGED <<sessions, lock, firebase_manager, disk, attendance_docs,
                   session_docs, now, loc, result, hist, epoch>>

\* A caller of Run.py: any number of calls, one after the other.
CallRun(t) ==
    /\ \E r \in RunRequests : Enter(t, r)
    /\ UNCHANGED calls

\* A client of the HTTP routes.
CallApp(t) ==
    /\ calls < MaxCalls
    /\ \E r \in AppRequests : Enter(t, r)
    /\ calls' = calls + 1

\* The request of thread t returns r to its caller.
Finish(t, r) ==
    /\ pc' = [pc EXCEPT ![t] = "done"]
    /\ result' = [result EXCEPT ![t] = r]
    /\ loc' = [loc EXCEPT ![t] = NoLoc]

\* datetime.now() moves on.
Tick ==
    /\ Quiet
    /\ now < MaxTime
    /\ now' = now + 1
    /\ UNCHANGED <<sessions, lock, firebase_manager, disk, attendance_docs,
                   session_docs, pc, req, loc, result, calls, hist, epoch>>

\* datetime.now() is the naive local wall clock, which can be set back
\* (a clock correction, the end of daylight saving time).
ClockSetBack ==
    /\ Quiet
    /\ \E earlier \in 0..(now - 1) : now' = earlier
    /\ UNCHANGED <<sessions, lock, firebase_manager, disk, attendance_docs,
                   session_docs, pc, req, loc, result, calls, hist, epoch>>

(* ------------------------------ the lock ------------------------------ *)

\* A lock that excludes nobody.
LockIgnored(t) == TRUE

\* Run.py:18: `with _sessions_lock` blocks while another thread holds the
\* lock.  No function of Run.py calls another one while holding it, so the
\* RLock is never re-entered.
LockFree(t) == lock = NoThread

WaitLabels ==
    {"start_enter", "stop_enter", "status_enter", "clear_enter", "record_enter"}

BodyLabel(l) ==
    CASE l = "start_enter" -> "start_check"
      [] l = "stop_enter" -> "stop_check"
      [] l = "status_enter" -> "status_read"
      [] l = "clear_enter" -> "clear_write"
      [] l = "record_enter" -> "record_check"

\* Run.py:35-36, 58-59, 89-90, 128-129: `if not class_id` returns the
\* error before the lock is asked for.  clear_session_data has no such
\* check: a falsy class_id means "all".
RejectNoKey(t) ==
    /\ Quiet
    /\ pc[t] \in WaitLabels \ {"clear_enter"}
    /\ KeyOf(t) = NoKey
    /\ Finish(t, Resp("error", 400))
    /\ UNCHANGED <<sessions, lock, firebase_manager, disk, attendance_docs,
                   session_docs, now, req, calls, hist, epoch>>

\* Run.py:37, 60, 91, 130, 158: `with _sessions_lock:`
Acquire(t) ==
    /\ Quiet
    /\ pc[t] \in WaitLabels
    /\ KeyOf(t) # NoKey \/ pc[t] = "clear_enter"
    /\ LockFree(t)
    /\ lock' = t
    /\ pc' = [pc EXCEPT ![t] = BodyLabel(pc[t])]
    /\ UNCHANGED <<sessions, firebase_manager, disk, attendance_docs,
                   session_docs, now, req, loc, result, calls, hist, epoch>>

\* A return that leaves the `with` block without giving the lock back.
LockKept == UNCHANGED lock

\* Leaving the `with` block.
Release == lock' = NoThread

(* --------------------------- Run.py: start ---------------------------- *)

\* An assignment that makes the registry anew with the one slot in it.
PutOnlySlot(S, k, slot) == [x \in {k} |-> slot]

\* _sessions_by_class[class_id] = slot
PutSlot(S, k, slot) == [x \in DOMAIN S \cup {k} |-> IF x = k THEN slot ELSE S[x]]

\* Run.py:39: `if sess and sess.get("is_active")`
StartRefused(S, k) == IsActive(S, k)

\* Run.py:48-53: the 'started' response.
StartedResp(slot, k) ==
    [Resp("started", 200) EXCEPT
        !.summary = [NoSummary EXCEPT !.class_id = k,
                                      !.session_name = slot.session_name,
                                      !.start_time = slot.start_time]]

\* Run.py:38-40: the session is active: 'already_active', 409.
StartConflict(t) ==
    /\ Quiet
    /\ pc[t] = "start_check"
    /\ StartRefused(sessions, KeyOf(t))
    /\ Finish(t, Resp("already_active", 409))
    /\ Release
    /\ UNCHANGED <<sessions, firebase_manager, disk, attendance_docs,
                   session_docs, now, req, calls, hist, epoch>>

\* The session_name a start can carry: any for a direct call; the
\* /start_session route passes none (app.py:143).
StartNames(op) ==
    IF op = "h_start" THEN {NoName} ELSE GivenNames \cup {NoName}

\* Run.py:38-39: no slot, or an inactive one: go on to write the slot.  The
\* session_name argument (Run.py:33) is drawn here, where it first matters.
StartCheckPass(t) ==
    /\ Quiet
    /\ pc[t] = "start_check"
    /\ ~StartRefused(sessions, KeyOf(t))
    /\ \E session_name \in StartNames(req[t].op) :
         loc' = [loc EXCEPT ![t].session_name = session_name]
    /\ pc' = [pc EXCEPT ![t] = "start_write"]
    /\ UNCHANGED <<sessions, lock, firebase_manager, disk, attendance_docs,
                   session_docs, now, req, result, calls, hist, epoch>>

\* Run.py:41-53: write the active slot and return 'started'.
StartWrite(t) ==
    /\ Quiet
    /\ pc[t] = "start_write"
    /\ LET k == KeyOf(t)
           slot == ActiveSlot(k, loc[t].session_name, now)
       IN /\ sessions' = PutSlot(sessions, k, slot)
          /\ Finish(t, StartedResp(slot, k))
          /\ epoch' = [epoch EXCEPT ![k] = @ + 1]
          /\ hist' = [hist EXCEPT ![k] = NoHist]
    /\ Release
    /\ UNCHANGED <<firebase_manager, disk, attendance_docs, session_docs, now,
                   req, calls>>

(* --------------------------- Run.py: stop ----------------------------- *)

\* int(x / d): Python's int() truncates toward zero.
TruncDiv(x, d) == IF x >= 0 THEN x \div d ELSE -((-x) \div d)

\* Run.py:66: int((end_time - start_time).total_seconds()) if start_time else 0
DurationSeconds(start_time, end_time) ==
    IF start_time = NoTime THEN 0
    ELSE TruncDiv(end_time - start_time, TicksPerSecond)

\* A summary built after the counters were dropped.
SummaryWithoutRecords(sess, k, end_time) ==
    [session_name |-> sess.session_name,
     class_id |-> k,
     attendance_records |-> EmptyDict,
     start_time |-> sess.start_time,
     end_time |-> end_time,
     duration_seconds |-> DurationSeconds(sess.start_time, end_time)]

\* Run.py:64-76: the summary of a live slot at end_time.
SummaryOf(sess, k, end_time) ==
    [session_name |-> sess.session_name,
     class_id |-> k,
     attendance_records |-> sess.attendance_records,
     start_time |-> sess.start_time,
     end_time |-> end_time,
     duration_seconds |-> DurationSeconds(sess.start_time, end_time)]

\* Run.py:62: `if not sess or not sess.get("is_active")`
StopRefused(S, k) == ~IsActive(S, k)

\* Run.py:61-63: no active session: ('inactive', 400).  Called from the
\* /stop_session route, the tuple goes back to app.py:163.
StopInactive(t) ==
    /\ Quiet
    /\ pc[t] = "stop_check"
    /\ StopRefused(sessions, KeyOf(t))
    /\ IF req[t].op = "h_stop"
         THEN /\ pc' = [pc EXCEPT ![t] = "hstop_parse"]
              /\ loc' = [loc EXCEPT ![t].stop_resp = "inactive"]
              /\ UNCHANGED result
         ELSE Finish(t, Resp("inactive", 400))
    /\ Release
    /\ UNCHANGED <<sessions, firebase_manager, disk, attendance_docs,
                   session_docs, now, req, calls, hist, epoch>>

\* Run.py:61-62: the session is active.
StopCheckPass(t) ==
    /\ Quiet
    /\ pc[t] = "stop_check"
    /\ ~StopRefused(sessions, KeyOf(t))
    /\ pc' = [pc EXCEPT ![t] = "stop_snap"]
    /\ UNCHANGED <<sessions, lock, firebase_manager, disk, attendance_docs,
                   session_docs, now, req, loc, result, calls, hist, epoch>>

\* The slot object `sess` names.  The lock is held from the lookup on, so
\* it is the slot of the key; were the key gone, the object would be one
\* the registry no longer holds.
SessOf(t) ==
    IF KeyOf(t) \in DOMAIN sessions THEN sessions[KeyOf(t)] ELSE NoSlot

\* Run.py:64-76: read the clock and copy the live state into the summary.
StopSnapshot(t) ==
    /\ Quiet
    /\ pc[t] = "stop_snap"
    /\ loc' = [loc EXCEPT ![t].summary = SummaryOf(SessOf(t), KeyOf(t), now)]
    /\ pc' = [pc EXCEPT ![t] = "stop_reset"]
    /\ UNCHANGED <<sessions, lock, firebase_manager, disk, attendance_docs,
                   session_docs, now, req, result, calls, hist, epoch>>

\* Run.py:78-84: reset the slot and return the summary.
StopReset(t) ==
    /\ Quiet
    /\ pc[t] = "stop_reset"
    /\ sessions' = PutSlot(sessions, KeyOf(t), StoppedSlot(SessOf(t)))
    /\ IF req[t].op = "h_stop"
         THEN /\ pc' = [pc EXCEPT ![t] = "hstop_parse"]
              /\ loc' = [loc EXCEPT ![t].stop_resp = "summary"]
              /\ UNCHANGED result
         ELSE Finish(t, [Resp("summary", 200) EXCEPT !.summary = loc[t].summary])
    /\ Release
    /\ epoch' = [epoch EXCEPT ![KeyOf(t)] = 0]
    /\ hist' = [hist EXCEPT ![KeyOf(t)] = NoHist]
    /\ UNCHANGED <<firebase_manager, disk, attendance_docs, session_docs, now,
                   req, calls>>

(* -------------------------- Run.py: status ---------------------------- *)

\* A status that answers for a missing slot whatever the registry holds.
StatusRespOfNoSlot(S, k) ==
    [Resp("status", 200) EXCEPT !.summary = [NoSummary EXCEPT !.class_id = k]]

\* Run.py:92-99: `sess = _sessions_by_class.get(class_id) or {}`; an absent
\* key reads as inactive with no name and no start time.
StatusResp(S, k) ==
    LET sess == IF k \in DOMAIN S THEN S[k] ELSE NoSlot
    IN [Resp("status", 200) EXCEPT
           !.session_active = sess.is_active,
           !.summary = [NoSummary EXCEPT !.class_id = k,
                                         !.session_name = sess.session_name,
                                         !.start_time = sess.start_time]]

\* Run.py:91-99: get_session_status under the lock.
StatusRead(t) ==
    /\ Quiet
    /\ pc[t] = "status_read"
    /\ Finish(t, StatusResp(sessions, KeyOf(t)))
    /\ Release
    /\ UNCHANGED <<sessions, firebase_manager, disk, attendance_docs,
                   session_docs, now, req, calls, hist, epoch>>

(* -------------------------- Run.py: record ---------------------------- *)

\* A check that forgets the missing slot.
RecordRefusedIfPresent(S, k) == k \in DOMAIN S /\ ~S[k].is_active

\* Run.py:132: `if not sess or not sess.get("is_active")`
RecordRefused(S, k) == ~IsActive(S, k)

\* Run.py:136: `if name != "Unknown"`
IsCounted(name) == name # RecordSentinel

\* A store that forgets the value read.
OverwrittenWithOne(read) == 1

\* Run.py:137: the new value of records[name], from the value read.
Incremented(read) == read + 1

\* The names of this call keep every counter within MaxCount.
FitsCap(records, names) ==
    \A n \in Students :
        DictGet(records, n, 0) + Occurrences(names, n, Len(names)) <= MaxCount

\* app.py:300-315: the answer of main.recognize_faces_from_image, with the
\* names of its results, which /recognize_image returns whatever the
\* recording did.
RecognitionResp(names) == [Resp("success", 200) EXCEPT !.names = names]

\* What the caller of record_recognition_results_for_class passes on of
\* its return value r.  A direct caller has r.  /recognize_image calls it
\* as a statement (app.py:311), lets r go, and answers with result_json
\* (app.py:315).
RecordAnswer(t, r, names) ==
    IF req[t].op = "h_recognize" THEN RecognitionResp(names) ELSE r

\* The recognized_names a caller passes: /recognize_image calls only with
\* a non-empty list (app.py:308).
NamesOf(op) ==
    IF op = "h_recognize" THEN NameLists \ {<< >>} ELSE NameLists

\* Run.py:131-133: no active session: ('inactive', 403).
RecordInactive(t) ==
    /\ Quiet
    /\ pc[t] = "record_check"
    /\ RecordRefused(sessions, KeyOf(t))
    /\ \E names \in NamesOf(req[t].op) :
         Finish(t, RecordAnswer(t, Resp("inactive", 403), names))
    /\ Release
    /\ UNCHANGED <<sessions, firebase_manager, disk, attendance_docs,
                   session_docs, now, req, calls, hist, epoch>>

\* Run.py:131-135: the session is active; `records` is the slot's own
\* attendance_records dict (setdefault finds the key), and the loop starts.
RecordCheckPass(t) ==
    /\ Quiet
    /\ pc[t] = "record_check"
    /\ ~RecordRefused(sessions, KeyOf(t))
    /\ pc' = [pc EXCEPT ![t] = "record_loop"]
    /\ \E names \in NamesOf(req[t].op) :
         /\ FitsCap(SessOf(t).attendance_records, names)
         /\ loc' = [loc EXCEPT ![t].names = names, ![t].i = 1]
    /\ UNCHANGED <<sessions, lock, firebase_manager, disk, attendance_docs,
                   session_docs, now, req, result, calls, hist, epoch>>

\* Run.py:135-136: the next name is the sentinel: skip it.
RecordSkip(t) ==
    /\ Quiet
    /\ pc[t] = "record_loop"
    /\ loc[t].i <= Len(loc[t].names)
    /\ ~IsCounted(loc[t].names[loc[t].i])
    /\ loc' = [loc EXCEPT ![t].i = @ + 1]
    /\ UNCHANGED <<sessions, lock, firebase_manager, disk, attendance_docs,
                   session_docs, now, pc, req, result, calls, hist, epoch>>

\* Run.py:137, right-hand side: records.get(name, 0)
RecordRead(t) ==
    /\ Quiet
    /\ pc[t] = "record_loop"
    /\ loc[t].i <= Len(loc[t].names)
    /\ IsCounted(loc[t].names[loc[t].i])
    /\ loc' = [loc EXCEPT ![t].tmp =
                  DictGet(SessOf(t).attendance_records, loc[t].names[loc[t].i], 0)]
    /\ pc' = [pc EXCEPT ![t] = "record_store"]
    /\ UNCHANGED <<sessions, lock, firebase_manager, disk, attendance_docs,
                   session_docs, now, req, result, calls, hist, epoch>>

\* Run.py:137, the store: records[name] = <value read> + 1
RecordStore(t) ==
    /\ Quiet
    /\ pc[t] = "record_store"
    /\ LET k == KeyOf(t)
           name == loc[t].names[loc[t].i]
       IN sessions' =
            IF k \in DOMAIN sessions
              THEN [sessions EXCEPT ![k].attendance_records =
                       DictSet(@, name, Incremented(loc[t].tmp))]
              ELSE sessions
    /\ loc' = [loc EXCEPT ![t].i = @ + 1, ![t].tmp = 0]
    /\ pc' = [pc EXCEPT ![t] = "record_loop"]
    /\ UNCHANGED <<lock, firebase_manager, disk, attendance_docs,
                   session_docs, now, req, result, calls, hist, epoch>>

\* Run.py:138: the loop is over: return 'recorded' with the counters.
RecordReturn(t) ==
    /\ Quiet
    /\ pc[t] = "record_loop"
    /\ loc[t].i > Len(loc[t].names)
    /\ Finish(t, RecordAnswer(t, [Resp("recorded", 200) EXCEPT
                                     !.updated = SessOf(t).attendance_records],
                               loc[t].names))
    /\ Release
    /\ hist' = [hist EXCEPT ![KeyOf(t)] =
                  [n \in Students |->
                      @[n] + Occurrences(loc[t].names, n, Len(loc[t].names))]]
    /\ UNCHANGED <<sessions, firebase_manager, disk, attendance_docs,
                   session_docs, now, req, calls, epoch>>

(* --------------------------- Run.py: clear ---------------------------- *)

\* Run.py:158-167: clear_session_data: one slot reset, or the registry
\* emptied.  The /start_session route goes on to start_session.
ClearWrite(t) ==
    /\ Quiet
    /\ pc[t] = "clear_write"
    /\ IF KeyOf(t) # NoKey
         THEN /\ sessions' = PutSlot(sessions, KeyOf(t), ClearedSlot(SessOf(t)))
              /\ epoch' = [epoch EXCEPT ![KeyOf(t)] = 0]
              /\ hist' = [hist EXCEPT ![KeyOf(t)] = NoHist]
         ELSE /\ sessions' = << >>
              /\ epoch' = [k \in Keys |-> 0]
              /\ hist' = [k \in Keys |-> NoHist]
    /\ IF req[t].op = "h_start"
         THEN /\ pc' = [pc EXCEPT ![t] = "start_enter"]
              /\ UNCHANGED <<loc, result>>
         ELSE Finish(t, Resp("cleared", 0))
    /\ Release
    /\ UNCHANGED <<firebase_manager, disk, attendance_docs, session_docs, now,
                   req, calls>>

(* ----------------------- app.py: /start_session ------------------------ *)

HandlerLabels == {"hstart_enter", "hstop_enter"}

\* app.py:135-136, 156-157: `if not class_id`: 400.
HandlerNoKey(t) ==
    /\ Quiet
    /\ pc[t] \in HandlerLabels
    /\ KeyOf(t) = NoKey
    /\ Finish(t, Resp("classId_required", 400))
    /\ UNCHANGED <<sessions, lock, firebase_manager, disk, attendance_docs,
                   session_docs, now, req, calls, hist, epoch>>

\* app.py:138-139, 159-160: `if not firebase_manager`: 500.
HandlerNoFirebase(t) ==
    /\ Quiet
    /\ pc[t] \in HandlerLabels
    /\ KeyOf(t) # NoKey
    /\ ~firebase_manager
    /\ Finish(t, Resp("firebase_not_initialized", 500))
    /\ UNCHANGED <<sessions, lock, firebase_manager, disk, attendance_docs,
                   session_docs, now, req, calls, hist, epoch>>

\* app.py:142: /start_session calls clear_session_data(class_id) first, then
\* (from ClearWrite) start_session(class_id) at app.py:143, whose response
\* it returns.  app.py:163: /stop_session calls stop_session(class_id).
HandlerProceed(t) ==
    /\ Quiet
    /\ pc[t] \in HandlerLabels
    /\ KeyOf(t) # NoKey
    /\ firebase_manager
    /\ pc' = [pc EXCEPT ![t] =
                 IF pc[t] = "hstart_enter" THEN "clear_enter" ELSE "stop_enter"]
    /\ UNCHANGED <<sessions, lock, firebase_manager, disk, attendance_docs,
                   session_docs, now, req, loc, result, calls, hist, epoch>>

(* ----------------------- app.py: /stop_session ------------------------- *)

\* app.py:172, 196: session_data.get('duration_seconds', 60)
DefaultDuration == 60

\* app.py:193: session_data.get('session_name', 'Unknown')
DefaultSessionName == <<"Unknown">>

\* app.py:93-102 on what Run.stop_session returned: the "status" of the
\* parsed JSON.  The inactive outcome is the tuple (response, 400), which
\* has no get_data: the except branch answers {"status": "error", ...}.
\* A summary carries no "status" key at all.
ParsedStatus(stop_resp) ==
    IF stop_resp = "inactive" THEN "error" ELSE "absent"

\* app.py:165: `if not session_data or session_data.get("status") == "inactive"`
\* (both parsed dicts are non-empty).
HandlerSeesInactive(stop_resp) == ParsedStatus(stop_resp) = "inactive"

\* app.py:168-196: the session_data the route works on: the summary, or for
\* the error dict the defaults of each .get().
SessionDataOf(stop_resp, summary) ==
    IF stop_resp = "summary" THEN summary
    ELSE [NoSummary EXCEPT !.session_name = DefaultSessionName,
                           !.duration_seconds = DefaultDuration]

\* jsonify writes the keys of a dict sorted, so the parsed
\* attendance_records are iterated in name order.
NameOrder == <<"alice", "bob">>

SortedKeys(d) == SelectSeq(NameOrder, LAMBDA n : n \in DOMAIN d)

\* A classification that asks for more than the threshold.
AttendanceStatusAbove(presence_time, session_duration) ==
    IF session_duration > 0 /\ presence_time * 100 > 25 * session_duration
      THEN "present" ELSE "absent"

\* app.py:173, 179: percentage = presence / duration * 100 if duration > 0
\* else 0; "present" if percentage >= 25.
AttendanceStatus(presence_time, session_duration) ==
    IF session_duration > 0 /\ presence_time * 100 >= 25 * session_duration
      THEN "present" ELSE "absent"

\* app.py:164-169: parse the response of stop_session.
HStopParse(t) ==
    /\ Quiet
    /\ pc[t] = "hstop_parse"
    /\ IF HandlerSeesInactive(loc[t].stop_resp)
         THEN Finish(t, Resp("no_active_session", 400))
         ELSE LET sd == SessionDataOf(loc[t].stop_resp, loc[t].summary)
              IN /\ loc' = [loc EXCEPT ![t].summary = sd,
                                       ![t].todo = SortedKeys(sd.attendance_records),
                                       ![t].success_count = 0]
                 /\ pc' = [pc EXCEPT ![t] = "hstop_loop"]
                 /\ UNCHANGED result
    /\ UNCHANGED <<sessions, lock, firebase_manager, disk, attendance_docs,
                   session_docs, now, req, calls, hist, epoch>>

\* app.py:171-188 with firebase_config.py:59-82: one student's record is
\* saved (the document is written) or the save fails (False comes back).
HStopSave(t) ==
    /\ Quiet
    /\ pc[t] = "hstop_loop"
    /\ loc[t].todo # << >>
    /\ LET sd == loc[t].summary
           student == Head(loc[t].todo)
           presence_time == sd.attendance_records[student]
           doc == [status |-> AttendanceStatus(presence_time, sd.duration_seconds),
                   presence_time |-> presence_time,
                   session_duration |-> sd.duration_seconds]
       IN \E success \in BOOLEAN :
            /\ attendance_docs' =
                 IF success
                   THEN DictSet(attendance_docs, <<KeyOf(t), student>>, doc)
                   ELSE attendance_docs
            /\ loc' = [loc EXCEPT ![t].todo = Tail(@),
                                  ![t].success_count =
                                      IF success THEN @ + 1 ELSE @]
    /\ UNCHANGED <<sessions, lock, firebase_manager, disk, session_docs, now,
                   pc, req, result, calls, hist, epoch>>

\* app.py:190-207 with firebase_config.py:133-157: save the session
\* document (or fail to) and answer 200.
HStopSession(t) ==
    /\ Quiet
    /\ pc[t] = "hstop_loop"
    /\ loc[t].todo = << >>
    /\ LET sd == loc[t].summary
           doc == [session_name |-> sd.session_name,
                   start_time |-> IF sd.start_time = NoTime THEN now
                                  ELSE sd.start_time,
                   end_time |-> IF sd.end_time = NoTime THEN now
                                ELSE sd.end_time,
                   duration_minutes |-> sd.duration_seconds \div 60,
                   recognized_students |-> DOMAIN sd.attendance_records]
       IN \E success \in BOOLEAN :
            session_docs' =
                IF success THEN DictSet(session_docs, <<KeyOf(t), now>>, doc)
                ELSE session_docs
    /\ Finish(t, [Resp("stopped_saved", 200) EXCEPT
                     !.records_saved = loc[t].success_count,
                     !.total_students =
                         Cardinality(DOMAIN loc[t].summary.attendance_records)])
    /\ UNCHANGED <<sessions, lock, firebase_manager, disk, attendance_docs,
                   now, req, calls, hist, epoch>>

(* ---------------------- app.py: /recognize_image ---------------------- *)

\* app.py:303-308, 315: the recognition failed, found no face, or gave no
\* result with a name: nothing is recorded and result_json is returned.
HRecognizeNoNames(t) ==
    /\ Quiet
    /\ pc[t] = "hrecognize_enter"
    /\ Finish(t, RecognitionResp(<< >>))
    /\ UNCHANGED <<sessions, lock, firebase_manager, disk, attendance_docs,
                   session_docs, now, req, calls, hist, epoch>>

\* app.py:308-310: there are names and no classId: 400.
HRecognizeNoKey(t) ==
    /\ Quiet
    /\ pc[t] = "hrecognize_enter"
    /\ KeyOf(t) = NoKey
    /\ Finish(t, Resp("classId_required", 400))
    /\ UNCHANGED <<sessions, lock, firebase_manager, disk, attendance_docs,
                   session_docs, now, req, calls, hist, epoch>>

\* app.py:308-311: there are names and a classId:
\* record_recognition_results_for_class(names, class_id) is called.
HRecognizeRecord(t) ==
    /\ Quiet
    /\ pc[t] = "hrecognize_enter"
    /\ KeyOf(t) # NoKey
    /\ pc' = [pc EXCEPT ![t] = "record_enter"]
    /\ UNCHANGED <<sessions, lock, firebase_manager, disk, attendance_docs,
                   session_docs, now, req, loc, result, calls, hist, epoch>>

(* ------------------------ main.py: recognition ------------------------ *)

\* main.py:111, 128, 33-34: load the store, take the embedding of the face
\* in the image, and enter find_match.
RecognizeLoad(t) ==
    /\ Quiet
    /\ pc[t] = "recognize_enter"
    /\ \E face \in Faces :
         loc' = [loc EXCEPT ![t].face = face,
                            ![t].embeddings_db = Flatten(embeddings_pkl),
                            ![t].i = 1,
                            ![t].best_match = MatcherSentinel,
                            ![t].best_score = 0]
    /\ pc' = [pc EXCEPT ![t] = "match_loop"]
    /\ UNCHANGED <<sessions, lock, firebase_manager, disk, attendance_docs,
                   session_docs, now, req, result, calls, hist, epoch>>

\* main.py:38: the similarity of the face to the stored embedding the
\* loops have come to.
SimilarityAt(t) ==
    cosine_similarity(loc[t].face, loc[t].embeddings_db[loc[t].i].embedding)

\* A comparison that lets an equal similarity replace the best so far.
IsBetterOrEqual(similarity, best_score) == similarity >= best_score

\* main.py:39: `if similarity > best_score`
IsBetter(similarity, best_score) == similarity > best_score

\* main.py:36-41: a stored embedding that beats the best so far.
MatchBetter(t) ==
    /\ Quiet
    /\ pc[t] = "match_loop"
    /\ loc[t].i <= Len(loc[t].embeddings_db)
    /\ IsBetter(SimilarityAt(t), loc[t].best_score)
    /\ loc' = [loc EXCEPT
                 ![t].best_score = SimilarityAt(t),
                 ![t].best_match = loc[t].embeddings_db[loc[t].i].person,
                 ![t].i = @ + 1]
    /\ UNCHANGED <<sessions, lock, firebase_manager, disk, attendance_docs,
                   session_docs, now, pc, req, result, calls, hist, epoch>>

\* main.py:36-39: a stored embedding that does not.
MatchNotBetter(t) ==
    /\ Quiet
    /\ pc[t] = "match_loop"
    /\ loc[t].i <= Len(loc[t].embeddings_db)
    /\ ~IsBetter(SimilarityAt(t), loc[t].best_score)
    /\ loc' = [loc EXCEPT ![t].i = @ + 1]
    /\ UNCHANGED <<sessions, lock, firebase_manager, disk, attendance_docs,
                   session_docs, now, pc, req, result, calls, hist, epoch>>

\* A comparison that leaves the threshold itself out.
ExceedsThreshold(best_score) == best_score > SIMILARITY_THRESHOLD

\* main.py:43: `best_score >= SIMILARITY_THRESHOLD`
ReachesThreshold(best_score) == best_score >= SIMILARITY_THRESHOLD

\* main.py:43: what find_match returns.
MatchResult(best_match, best_score) ==
    [Resp("success", 200) EXCEPT
        !.name = IF ReachesThreshold(best_score) THEN best_match
                 ELSE MatcherSentinel,
        !.confidence = best_score]

\* main.py:43, 129-142: find_match returns and the result is reported.
MatchReturn(t) ==
    /\ Quiet
    /\ pc[t] = "match_loop"
    /\ loc[t].i > Len(loc[t].embeddings_db)
    /\ pc' = [pc EXCEPT ![t] = "done"]
    /\ result' = [result EXCEPT
                    ![t] = MatchResult(loc[t].best_match, loc[t].best_score)]
    /\ UNCHANGED <<sessions, lock, firebase_manager, disk, attendance_docs,
                   session_docs, now, req, loc, calls, hist, epoch>>

(* --------------- main.py: recognize_faces_from_image ------------------ *)

\* main.py:33-41: the loops of find_match from position i of the flattened
\* store on: the best match and the best score at their end.
RECURSIVE BestFrom(_, _, _, _, _)
BestFrom(embedding, db, i, best_match, best_score) ==
    IF i > Len(db) THEN <<best_match, best_score>>
    ELSE LET similarity == cosine_similarity(embedding, db[i].embedding)
         IN IF IsBetter(similarity, best_score)
              THEN BestFrom(embedding, db, i + 1, db[i].person, similarity)
              ELSE BestFrom(embedding, db, i + 1, best_match, best_score)

\* main.py:31-43: find_match as one function.
find_match(embedding, db) ==
    LET best == BestFrom(embedding, db, 1, MatcherSentinel, 0)
    IN IF ReachesThreshold(best[2]) THEN best
       ELSE <<MatcherSentinel, best[2]>>

\* The faces the detector finds in an image, in its order (main.py:118):
\* each is known here by the embedding its crop would give.  `faces` is
\* None for an image without faces, which the loop takes as no face.
FaceLists == UNION {[1..n -> Faces] : n \in 0..MaxFaces}

\* main.py:130-134: the entry of a matched face.  Its bounding box stands
\* for the place of the face in the detector's output.  A score is a whole
\* number of 25ths, which round(float(confidence), 3) leaves as it is.
ResultEntry(embedding, db, box) ==
    LET m == find_match(embedding, db)
    IN [name |-> m[1], confidence |-> m[2], bounding_box |-> box]

\* main.py:136: the entry of a face whose embedding or matching raised.
ErrorEntry == [error |-> "exception"]

\* A handler that lets the failing face go without an entry.
Skipped(results) == results

\* main.py:135-136: except Exception: results.append({"error": str(e)})
Caught(results) == Append(results, ErrorEntry)

\* main.py:111-120: the store is loaded, the faces are detected, and the
\* results start empty.
FacesLoad(t) ==
    /\ Quiet
    /\ pc[t] = "faces_enter"
    /\ \E faces \in FaceLists :
         loc' = [loc EXCEPT ![t].faces = faces,
                            ![t].embeddings_db = Flatten(embeddings_pkl),
                            ![t].i = 1,
                            ![t].results = << >>]
    /\ pc' = [pc EXCEPT ![t] = "faces_loop"]
    /\ UNCHANGED <<sessions, lock, firebase_manager, disk, attendance_docs,
                   session_docs, now, req, result, calls, hist, epoch>>

\* main.py:123-134: the next face is embedded and matched, and its entry
\* appended.
FaceMatched(t) ==
    /\ Quiet
    /\ pc[t] = "faces_loop"
    /\ loc[t].i <= Len(loc[t].faces)
    /\ loc' = [loc EXCEPT
                 ![t].results =
                     Append(@, ResultEntry(loc[t].faces[loc[t].i],
                                           loc[t].embeddings_db, loc[t].i)),
                 ![t].i = @ + 1]
    /\ UNCHANGED <<sessions, lock, firebase_manager, disk, attendance_docs,
                   session_docs, now, pc, req, result, calls, hist, epoch>>

\* main.py:127-136: DeepFace.represent or find_match raises on the next
\* face: the exception is caught and the loop goes on.
FaceFailed(t) ==
    /\ Quiet
    /\ pc[t] = "faces_loop"
    /\ loc[t].i <= Len(loc[t].faces)
    /\ loc' = [loc EXCEPT ![t].results = Caught(@), ![t].i = @ + 1]
    /\ UNCHANGED <<sessions, lock, firebase_manager, disk, attendance_docs,
                   session_docs, now, pc, req, result, calls, hist, epoch>>

\* main.py:138-142: the loop is over: the results are returned.  The
\* locals stay until the response is handed over.
FacesReturn(t) ==
    /\ Quiet
    /\ pc[t] = "faces_loop"
    /\ loc[t].i > Len(loc[t].faces)
    /\ pc' = [pc EXCEPT ![t] = "done"]
    /\ result' = [result EXCEPT
                    ![t] = [Resp("success", 200) EXCEPT
                               !.results = loc[t].results]]
    /\ UNCHANGED <<sessions, lock, firebase_manager, disk, attendance_docs,
                   session_docs, now, req, loc, calls, hist, epoch>>

(* ----------------------- main.py: save_attendance --------------------- *)

\* main.py:16: ATTENDANCE_THRESHOLD = 0.25, in hundredths.
ATTENDANCE_THRESHOLD == 25

\* main.py:73, 75: percentage = presence_time / session_length;
\* "present" if percentage >= ATTENDANCE_THRESHOLD else "absent"
\* (session_length is not 0: the division has been done by then).
SavedStatus(presence_time, session_length) ==
    IF \/ session_length > 0
          /\ presence_time * 100 >= ATTENDANCE_THRESHOLD * session_length
       \/ session_length < 0
          /\ presence_time * 100 <= ATTENDANCE_THRESHOLD * session_length
      THEN "present" ELSE "absent"

\* The dicts name -> count a session can have gathered.
Tallies == UNION {[P -> 1..MaxCount] : P \in SUBSET Students}

\* Session lengths in whole seconds: long enough for the highest count to
\* fall short of the threshold.
MaxSeconds == 4 * MaxCount + 1

\* main.py:56-57: with a session_length of 0 the first division raises
\* ZeroDivisionError, which nothing catches; with no attendance there is
\* no division.  Otherwise main.py:71-79 prepares a record per person.
MarkPrepare(t) ==
    /\ Quiet
    /\ pc[t] = "mark_enter"
    /\ \E attendance \in Tallies, session_length \in 0..MaxSeconds :
         IF session_length = 0 /\ attendance # EmptyDict
           THEN Finish(t, Resp("ZeroDivisionError", 500))
           ELSE /\ loc' = [loc EXCEPT ![t].attendance_records =
                             [person \in DOMAIN attendance |->
                                [status |-> SavedStatus(attendance[person],
                                                        session_length),
                                 presence_time |-> attendance[person],
                                 session_duration |-> session_length]]]
                /\ pc' = [pc EXCEPT ![t] = "mark_save"]
                /\ UNCHANGED result
    /\ UNCHANGED <<sessions, lock, firebase_manager, disk, attendance_docs,
                   session_docs, now, req, calls, hist, epoch>>

\* main.py:82 with firebase_config.py:307-345: the batch is committed (a
\* document per person, carrying the status and the presence time) or
\* fails as a whole; main.py:154-160 answers either way.
MarkSave(t) ==
    /\ Quiet
    /\ pc[t] = "mark_save"
    /\ LET records == loc[t].attendance_records
           written == [id \in {<<KeyOf(t), person>> : person \in DOMAIN records}
                          |-> [status |-> records[id[2]].status,
                               presence_time |-> records[id[2]].presence_time]]
       IN \E success \in BOOLEAN :
            attendance_docs' =
                IF success
                  THEN [id \in DOMAIN attendance_docs \cup DOMAIN written |->
                           IF id \in DOMAIN written THEN written[id]
                           ELSE attendance_docs[id]]
                  ELSE attendance_docs
    /\ Finish(t, Resp("attendance_saved", 200))
    /\ UNCHANGED <<sessions, lock, firebase_manager, disk, session_docs, now,
                   req, calls, hist, epoch>>

(* ------------------- Student_Manage.py: the folders ------------------- *)

\* Student_Manage.py:10-56 (app.py:328-374): the folder exists already
\* (400), or it is made and the images are saved in it.
AddStudent(t) ==
    /\ Quiet
    /\ pc[t] = "add_enter"
    /\ \E student_name \in Students, images \in ImageSets :
         /\ IF student_name \in Folders(images_dir)
              THEN /\ Finish(t, Resp("error", 400))
                   /\ UNCHANGED images_dir
              ELSE /\ images_dir' = DictSet(images_dir, student_name, images)
                   /\ Finish(t, [Resp("success", 200) EXCEPT
                                    !.name = student_name])
    /\ UNCHANGED <<sessions, lock, firebase_manager, embeddings_pkl,
                   attendance_docs, session_docs, now, req, calls, hist,
                   epoch>>

\* Student_Manage.py:59-76 (app.py:376-387): the folder is removed, or
\* there is none (404).  Nothing else is touched.
RemoveStudent(t) ==
    /\ Quiet
    /\ pc[t] = "remove_enter"
    /\ \E student_name \in Students :
         /\ IF student_name \in Folders(images_dir)
              THEN /\ images_dir' = DictDel(images_dir, student_name)
                   /\ Finish(t, [Resp("success", 200) EXCEPT
                                    !.name = student_name])
              ELSE /\ Finish(t, Resp("error", 404))
                   /\ UNCHANGED images_dir
    /\ UNCHANGED <<sessions, lock, firebase_manager, embeddings_pkl,
                   attendance_docs, session_docs, now, req, calls, hist,
                   epoch>>

(* ---------------- EncodeGenerator.py: manage_embeddings --------------- *)

\* EncodeGenerator.py:29-35 (app.py:389-405): load the pickled dict.
UpdateLoad(t) ==
    /\ Quiet
    /\ pc[t] = "update_enter"
    /\ loc' = [loc EXCEPT ![t].embeddings = embeddings_pkl]
    /\ pc' = [pc EXCEPT ![t] = "update_add"]
    /\ UNCHANGED <<sessions, lock, firebase_manager, disk, attendance_docs,
                   session_docs, now, req, result, calls, hist, epoch>>

\* EncodeGenerator.py:43-93: every folder whose person is not in the dict
\* is encoded and appended.
UpdateAdd(t) ==
    /\ Quiet
    /\ pc[t] = "update_add"
    /\ \E added \in EncodingsOf(images_dir,
                               Folders(images_dir)
                                   \ PersonsOf(loc[t].embeddings)) :
         loc' = [loc EXCEPT ![t].embeddings = @ \o added]
    /\ pc' = [pc EXCEPT ![t] = "update_prune"]
    /\ UNCHANGED <<sessions, lock, firebase_manager, disk, attendance_docs,
                   session_docs, now, req, result, calls, hist, epoch>>

\* EncodeGenerator.py:96-100: list the folders and delete from the dict
\* the persons that have none.
UpdatePrune(t) ==
    /\ Quiet
    /\ pc[t] = "update_prune"
    /\ loc' = [loc EXCEPT ![t].embeddings = Prune(@, Folders(images_dir))]
    /\ pc' = [pc EXCEPT ![t] = "update_save"]
    /\ UNCHANGED <<sessions, lock, firebase_manager, disk, attendance_docs,
                   session_docs, now, req, result, calls, hist, epoch>>

\* EncodeGenerator.py:104-105 (app.py:406): pickle the dict over the file.
UpdateSave(t) ==
    /\ Quiet
    /\ pc[t] = "update_save"
    /\ embeddings_pkl' = loc[t].embeddings
    /\ Finish(t, Resp("ok", 200))
    /\ UNCHANGED <<sessions, lock, firebase_manager, images_dir,
                   attendance_docs, session_docs, now, req, calls, hist,
                   epoch>>

(* --------------------------- specification ---------------------------- *)

\* Run.py under concurrent direct callers.
Next ==
    \/ Tick
    \/ ClockSetBack
    \/ \E t \in Threads :
        \/ CallRun(t)
        \/ Deliver(t)
        \/ RejectNoKey(t)
        \/ Acquire(t)
        \/ StartConflict(t)
        \/ StartCheckPass(t)
        \/ StartWrite(t)
        \/ StopInactive(t)
        \/ StopCheckPass(t)
        \/ StopSnapshot(t)
        \/ StopReset(t)
        \/ StatusRead(t)
        \/ RecordInactive(t)
        \/ RecordCheckPass(t)
        \/ RecordSkip(t)
        \/ RecordRead(t)
        \/ RecordStore(t)
        \/ RecordReturn(t)
        \/ ClearWrite(t)

\* Run.py does not use Firebase.
InitRun == Init /\ firebase_manager = TRUE

Spec == InitRun /\ [][Next]_vars

\* The application: concurrent HTTP requests to the routes of app.py.
NextApp ==
    \/ Tick
    \/ ClockSetBack
    \/ \E t \in Threads :
        \/ CallApp(t)
        \/ Deliver(t)
        \/ HandlerNoKey(t)
        \/ HandlerNoFirebase(t)
        \/ HandlerProceed(t)
        \/ RejectNoKey(t)
        \/ Acquire(t)
        \/ StartConflict(t)
        \/ StartCheckPass(t)
        \/ StartWrite(t)
        \/ StopInactive(t)
        \/ StopCheckPass(t)
        \/ StopSnapshot(t)
        \/ StopReset(t)
        \/ RecordInactive(t)
        \/ RecordCheckPass(t)
        \/ RecordSkip(t)
        \/ RecordRead(t)
        \/ RecordStore(t)
        \/ RecordReturn(t)
        \/ ClearWrite(t)
        \/ HStopParse(t)
        \/ HStopSave(t)
        \/ HStopSession(t)

SpecApp == Init /\ [][NextApp]_vars

\* Callers of Run.py that work on several classes at once: sessions are
\* started, recorded into and cleared, on either class or (clear) on all.
RegRequests ==
    RequestsOf({"start", "record", "clear"}, Keys)
        \cup RequestsOf({"clear"}, {NoKey})

CallReg(t) ==
    /\ calls < MaxCalls
    /\ \E r \in RegRequests : Enter(t, r)
    /\ calls' = calls + 1

NextReg ==
    \E t \in Threads :
         \/ CallReg(t)
         \/ Deliver(t)
         \/ Acquire(t)
         \/ StartConflict(t)
         \/ StartCheckPass(t)
         \/ StartWrite(t)
         \/ RecordInactive(t)
         \/ RecordCheckPass(t)
         \/ RecordSkip(t)
         \/ RecordRead(t)
         \/ RecordStore(t)
         \/ RecordReturn(t)
         \/ ClearWrite(t)

SpecReg == InitRun /\ [][NextReg]_vars

\* Callers that start and stop the session of one class while the wall
\* clock runs long enough for more than a whole second to pass, forwards or
\* (set back) backwards, between a start and a stop.
ClockRequests == RequestsOf({"start", "stop"}, {"CS101"})

CallClock(t) ==
    /\ \E r \in ClockRequests : Enter(t, r)
    /\ UNCHANGED calls

MaxClock == MaxTime + TicksPerSecond

TickClock ==
    /\ Quiet
    /\ now < MaxClock
    /\ now' = now + 1
    /\ UNCHANGED <<sessions, lock, firebase_manager, disk, attendance_docs,
                   session_docs, pc, req, loc, result, calls, hist, epoch>>

NextClock ==
    \/ TickClock
    \/ ClockSetBack
    \/ \E t \in Threads :
         \/ CallClock(t)
         \/ Deliver(t)
         \/ Acquire(t)
         \/ StartConflict(t)
         \/ StartCheckPass(t)
         \/ StartWrite(t)
         \/ StopInactive(t)
         \/ StopCheckPass(t)
         \/ StopSnapshot(t)
         \/ StopReset(t)

SpecClock == InitRun /\ [][NextClock]_vars

\* One image with a face in it is recognised against a store, for every
\* store: every order of the persons and every list of embeddings each.
InitMatch ==
    /\ InitSessions
    /\ firebase_manager = TRUE
    /\ embeddings_pkl \in Stores
    /\ images_dir = [p \in PersonsOf(embeddings_pkl) |-> "front"]

MatchRequests == RequestsOf({"recognize"}, {NoKey})

CallMatch(t) ==
    /\ calls = 0
    /\ \E r \in MatchRequests : Enter(t, r)
    /\ calls' = calls + 1

NextMatch ==
    \E t \in Threads :
        \/ CallMatch(t)
        \/ RecognizeLoad(t)
        \/ MatchBetter(t)
        \/ MatchNotBetter(t)
        \/ MatchReturn(t)

SpecMatch == InitMatch /\ [][NextMatch]_vars

\* The routes that enrol and remove students, update the embeddings and
\* recognise a face, from any state an update has left: some students
\* have folders, and the store holds an entry for each of them.
InitStore ==
    /\ InitSessions
    /\ firebase_manager = TRUE
    /\ \E P \in SUBSET Students : images_dir \in [P -> ImageSets]
    /\ embeddings_pkl \in EncodingsOf(images_dir, Folders(images_dir))

StoreRequests == RequestsOf({"add", "remove", "update", "recognize"}, {NoKey})

CallStore(t) ==
    /\ calls < MaxCalls
    /\ \E r \in StoreRequests : Enter(t, r)
    /\ calls' = calls + 1

NextStore ==
    \E t \in Threads :
        \/ CallStore(t)
        \/ Deliver(t)
        \/ AddStudent(t)
        \/ RemoveStudent(t)
        \/ UpdateLoad(t)
        \/ UpdateAdd(t)
        \/ UpdatePrune(t)
        \/ UpdateSave(t)
        \/ RecognizeLoad(t)
        \/ MatchBetter(t)
        \/ MatchNotBetter(t)
        \/ MatchReturn(t)

SpecStore == InitStore /\ [][NextStore]_vars

\* A session of one class has been active for some whole seconds and has
\* gathered some counts; it is stopped through /stop_session, or
\* main.mark_attendance is called with an attendance of its own.
InitAgg ==
    /\ lock = NoThread
    /\ firebase_manager = TRUE
    /\ attendance_docs = << >>
    /\ session_docs = << >>
    /\ pc = [t \in Threads |-> "idle"]
    /\ req = [t \in Threads |-> NoReq]
    /\ loc = [t \in Threads |-> NoLoc]
    /\ result = [t \in Threads |-> NoResult]
    /\ calls = 0
    /\ embeddings_pkl = << >>
    /\ images_dir = EmptyDict
    /\ \E tally \in Tallies, seconds \in 0..MaxSeconds :
         /\ sessions = [k \in {"CS101"} |->
                           [ActiveSlot(k, NoName, 0) EXCEPT
                               !.attendance_records = tally]]
         /\ now = seconds * TicksPerSecond
         /\ hist = [k \in Keys |->
                       IF k = "CS101"
                         THEN [n \in Students |-> DictGet(tally, n, 0)]
                         ELSE NoHist]
         /\ epoch = [k \in Keys |-> IF k = "CS101" THEN 1 ELSE 0]

AggRequests == RequestsOf({"h_stop", "mark"}, {"CS101"})

CallAgg(t) ==
    /\ calls = 0
    /\ \E r \in AggRequests : Enter(t, r)
    /\ calls' = calls + 1

NextAgg ==
    \E t \in Threads :
        \/ CallAgg(t)
        \/ Deliver(t)
        \/ HandlerProceed(t)
        \/ Acquire(t)
        \/ StopCheckPass(t)
        \/ StopSnapshot(t)
        \/ StopReset(t)
        \/ HStopParse(t)
        \/ HStopSave(t)
        \/ HStopSession(t)
        \/ MarkPrepare(t)
        \/ MarkSave(t)

SpecAgg == InitAgg /\ [][NextAgg]_vars

\* Sessions of one class are started and stopped while images are sent to
\* /recognize_image, with the classId or without it.
RecRequests ==
    RequestsOf({"start", "stop"}, {"CS101"})
        \cup RequestsOf({"h_recognize"}, {"CS101", NoKey})

CallRec(t) ==
    /\ \E r \in RecRequests : Enter(t, r)
    /\ UNCHANGED calls

NextRec ==
    \E t \in Threads :
        \/ CallRec(t)
        \/ Deliver(t)
        \/ Acquire(t)
        \/ StartConflict(t)
        \/ StartCheckPass(t)
        \/ StartWrite(t)
        \/ StopInactive(t)
        \/ StopCheckPass(t)
        \/ StopSnapshot(t)
        \/ StopReset(t)
        \/ HRecognizeNoNames(t)
        \/ HRecognizeNoKey(t)
        \/ HRecognizeRecord(t)
        \/ RecordInactive(t)
        \/ RecordCheckPass(t)
        \/ RecordSkip(t)
        \/ RecordRead(t)
        \/ RecordStore(t)
        \/ RecordReturn(t)

SpecRec == InitRun /\ [][NextRec]_vars

\* One image with some faces is recognised against a store.
FacesRequests == RequestsOf({"recognize_faces"}, {NoKey})

CallFaces(t) ==
    /\ calls = 0
    /\ \E r \in FacesRequests : Enter(t, r)
    /\ calls' = calls + 1

NextFaces ==
    \E t \in Threads :
        \/ CallFaces(t)
        \/ Deliver(t)
        \/ FacesLoad(t)
        \/ FaceMatched(t)
        \/ FaceFailed(t)
        \/ FacesReturn(t)

SpecFaces == InitStore /\ [][NextFaces]_vars

\* Callers of Run.py that run the sessions of two classes side by side:
\* each call starts, stops, records into or asks the status of one class.
KeysRequests == RequestsOf({"start", "stop", "record", "status"}, Keys)

CallKeys(t) ==
    /\ calls < MaxCalls
    /\ \E r \in KeysRequests : Enter(t, r)
    /\ calls' = calls + 1

NextKeys ==
    \E t \in Threads :
        \/ CallKeys(t)
        \/ Deliver(t)
        \/ Acquire(t)
        \/ StartConflict(t)
        \/ StartCheckPass(t)
        \/ StartWrite(t)
        \/ StopInactive(t)
        \/ StopCheckPass(t)
        \/ StopSnapshot(t)
        \/ StopReset(t)
        \/ StatusRead(t)
        \/ RecordInactive(t)
        \/ RecordCheckPass(t)
        \/ RecordSkip(t)
        \/ RecordRead(t)
        \/ RecordStore(t)
        \/ RecordReturn(t)

SpecKeys == InitRun /\ [][NextKeys]_vars

\* A finite number of calls of the five functions of Run.py, made by
\* threads that the scheduler keeps running: a thread that is in a call
\* and can take a step (among them taking the lock when it is free)
\* eventually takes one.
LiveRequests ==
    RequestsOf({"start", "stop", "status", "clear", "record"},
               {"CS101", NoKey})

CallLive(t) ==
    /\ calls < MaxCalls
    /\ \E r \in LiveRequests : Enter(t, r)
    /\ calls' = calls + 1

\* The steps of thread t inside a call, up to handing over its result.
Proceed(t) ==
    \/ Deliver(t)
    \/ RejectNoKey(t)
    \/ Acquire(t)
    \/ StartConflict(t)
    \/ StartCheckPass(t)
    \/ StartWrite(t)
    \/ StopInactive(t)
    \/ StopCheckPass(t)
    \/ StopSnapshot(t)
    \/ StopReset(t)
    \/ StatusRead(t)
    \/ RecordInactive(t)
    \/ RecordCheckPass(t)
    \/ RecordSkip(t)
    \/ RecordRead(t)
    \/ RecordStore(t)
    \/ RecordReturn(t)
    \/ ClearWrite(t)

NextLive == \E t \in Threads : CallLive(t) \/ Proceed(t)

SpecLive ==
    /\ InitRun
    /\ [][NextLive]_vars
    /\ \A t \in Threads : WF_vars(Proceed(t))

(* ------------------------------ claims -------------------------------- *)

\* Thread t takes a step.
Steps(t) == pc'[t] # pc[t] \/ loc'[t] # loc[t]

\* The canonical inactive slot, written out.
IsCanonicalInactive(sess) ==
    /\ sess.is_active = FALSE
    /\ sess.session_name = NoName
    /\ sess.attendance_records = EmptyDict
    /\ sess.start_time = NoTime

\* Labels at which a record call has passed its check and not yet returned.
RecordInFlight == {"record_loop", "record_store"}

\* The dict of counters that a tally of names amounts to: one key per
\* student named at least once.
CountsOf(tally) == [n \in {x \in Students : tally[x] > 0} |-> tally[n]]

\* C1: among the start calls made on a key since it last had no active
\* session, exactly one has returned 'started' whenever any has returned,
\* every other one returns 'already_active' with 409, and the key has an
\* active session exactly when one start has won: never two.
C1_OneStartWins ==
    \A k \in Keys :
        /\ epoch[k] <= 1
        /\ IsActive(sessions, k) <=> epoch[k] = 1
        /\ \A t \in Threads :
             (pc[t] = "done" /\ req[t].op = "start" /\ KeyOf(t) = k) =>
                /\ epoch[k] = 1
                /\ result[t].status \in {"started", "already_active"}
                /\ result[t].status = "already_active" => result[t].code = 409

\* C1 witness: a start call gets 'already_active' while another thread's
\* start call on the same key is waiting for the lock.
C1_Witness ==
    \E t, u \in Threads :
        /\ t # u
        /\ pc[t] = "done" /\ req[t].op = "start"
        /\ result[t].status = "already_active"
        /\ pc[u] = "start_enter" /\ KeyOf(u) = KeyOf(t)

\* C2 (as claimed): while a key's session is active, no step of a start
\* request on that key (Run.start_session called directly, or the
\* /start_session route) changes the key's slot, and the request returns
\* 'already_active'.
C2_StartOnActiveKeepsSession ==
    [][\A t \in Threads :
          (req[t].op \in {"start", "h_start"} /\ Steps(t)
             /\ IsActive(sessions, KeyOf(t))) =>
                /\ KeyOf(t) \in DOMAIN sessions'
                /\ sessions'[KeyOf(t)] = sessions[KeyOf(t)]
                /\ pc'[t] = "done" => result'[t].status = "already_active"]_vars

\* C3 (as claimed): a stop request that finds no active session changes
\* neither the registry nor the persisted collections, and returns the
\* not-active outcome: ('inactive', 400) from Run.stop_session, 400 "No
\* active session found" from the /stop_session route.
C3_StopInactiveIsNoOp ==
    [][\A t \in Threads :
          /\ (pc[t] = "stop_check" /\ Steps(t)
                /\ StopRefused(sessions, KeyOf(t))) =>
                  /\ sessions' = sessions
                  /\ req[t].op = "stop" =>
                       /\ pc'[t] = "done"
                       /\ result'[t].status = "inactive"
                       /\ result'[t].code = 400
          /\ (loc[t].stop_resp = "inactive" /\ Steps(t)) =>
                  /\ sessions' = sessions
                  /\ attendance_docs' = attendance_docs
                  /\ session_docs' = session_docs
                  /\ pc'[t] = "done" =>
                       /\ result'[t].status = "no_active_session"
                       /\ result'[t].code = 400]_vars

\* C4: every slot of the registry that is not active has no name, no start
\* time and no counters.
C4_InactiveIsEmpty ==
    \A k \in DOMAIN sessions :
        ~sessions[k].is_active => IsCanonicalInactive(sessions[k])

\* C4 witness: a session that had counted someone has just been stopped.
C4_Witness ==
    \E t \in Threads :
        /\ pc[t] = "done" /\ req[t].op = "stop"
        /\ result[t].status = "summary"
        /\ result[t].summary.attendance_records # EmptyDict
        /\ KeyOf(t) \in DOMAIN sessions
        /\ ~sessions[KeyOf(t)].is_active

\* C5: whenever no record call is inside its loop on an active session, the
\* presence counters of the session sum to the number of student names
\* carried by the record calls that reported 'recorded' since it started.
C5_NoLostUpdate ==
    \A k \in Keys :
        (/\ IsActive(sessions, k)
         /\ \A t \in Threads : KeyOf(t) = k => pc[t] \notin RecordInFlight)
        => DictSum(sessions[k].attendance_records) = SumOver(hist[k], Students)

\* C5 witness: a record call returns 'recorded' into a session that has by
\* now counted two names, while another record call on the same key is
\* waiting for the lock.
C5_Witness ==
    \E t, u \in Threads :
        /\ t # u
        /\ pc[t] = "done" /\ req[t].op = "record"
        /\ result[t].status = "recorded"
        /\ DictSum(result[t].updated) >= 2
        /\ pc[u] = "record_enter" /\ KeyOf(u) = KeyOf(t)

\* C6: while a stop call is taking or holding its snapshot of a key, no
\* record call on that key is between its check and its return, and the
\* snapshot held equals the live counters: no increment is half in the
\* summary and none lands after the snapshot.
C6_SnapshotAtomic ==
    \A s \in Threads :
        pc[s] \in {"stop_snap", "stop_reset"} =>
            /\ \A r \in Threads \ {s} :
                 KeyOf(r) = KeyOf(s) => pc[r] \notin RecordInFlight
            /\ pc[s] = "stop_reset" =>
                 /\ IsActive(sessions, KeyOf(s))
                 /\ loc[s].summary.attendance_records =
                        sessions[KeyOf(s)].attendance_records

\* C6 witness: a stop call holds its snapshot, with counters in it, while a
\* record call on the same key is waiting for the lock.
C6_Witness ==
    \E s, r \in Threads :
        /\ s # r
        /\ pc[s] = "stop_reset"
        /\ loc[s].summary.attendance_records # EmptyDict
        /\ pc[r] = "record_enter" /\ KeyOf(r) = KeyOf(s)

\* C7: the step in which a stop call returns hands back the counters, name
\* and start time the slot held just before, and leaves the slot in the
\* canonical inactive state.
C7_StopReturnsLiveState ==
    [][\A t \in Threads :
          (pc[t] = "stop_reset" /\ req[t].op = "stop" /\ Steps(t)) =>
              /\ pc'[t] = "done"
              /\ result'[t].status = "summary"
              /\ result'[t].summary.attendance_records =
                     sessions[KeyOf(t)].attendance_records
              /\ result'[t].summary.session_name =
                     sessions[KeyOf(t)].session_name
              /\ result'[t].summary.start_time = sessions[KeyOf(t)].start_time
              /\ IsCanonicalInactive(sessions'[KeyOf(t)])]_vars

\* C7 witness: a stop call has returned a summary with a name, a start time
\* and a counter, and the slot is inactive.
C7_Witness ==
    \E t \in Threads :
        /\ pc[t] = "done" /\ req[t].op = "stop"
        /\ result[t].status = "summary"
        /\ result[t].summary.session_name = <<"Lecture1">>
        /\ result[t].summary.start_time # NoTime
        /\ DictSum(result[t].summary.attendance_records) >= 1
        /\ IsCanonicalInactive(sessions[KeyOf(t)])

\* C8: the summary a stop call is about to return counts each student as
\* often as the record calls since the start named them, and has no counter
\* for the sentinel.
C8_SummaryCountsOccurrences ==
    \A t \in Threads :
        pc[t] = "stop_reset" =>
            /\ loc[t].summary.attendance_records = CountsOf(hist[KeyOf(t)])
            /\ MatcherSentinel \notin DOMAIN loc[t].summary.attendance_records

\* C8 witness: the summary {alice: 2, bob: 1} of the spec's scenario.
C8_Witness ==
    \E t \in Threads :
        /\ pc[t] = "stop_reset"
        /\ loc[t].summary.attendance_records = [n \in {"alice", "bob"} |->
                                                  IF n = "alice" THEN 2 ELSE 1]

\* C9: the step in which a record call finds its key absent or inactive
\* returns ('inactive', 403) and leaves the registry as it was.
C9_RecordInactiveIsNoOp ==
    [][\A t \in Threads :
          (pc[t] = "record_check" /\ Steps(t)
             /\ ~IsActive(sessions, KeyOf(t))) =>
              /\ pc'[t] = "done"
              /\ result'[t].status = "inactive"
              /\ result'[t].code = 403
              /\ sessions' = sessions]_vars

\* C9 witness: a record call on a key with no slot has returned 'inactive'
\* and the key still has no slot.
C9_Witness ==
    \E t \in Threads :
        /\ pc[t] = "done" /\ req[t].op = "record"
        /\ result[t].status = "inactive"
        /\ KeyOf(t) \in Keys
        /\ KeyOf(t) \notin DOMAIN sessions

\* C10: a step of a record call whose current name is the Matcher's
\* no-match sentinel changes no slot, and no slot ever has a counter for the
\* sentinel.
C10_SentinelNeverCounted ==
    [][/\ \A t \in Threads :
            (/\ pc[t] = "record_loop" /\ Steps(t)
             /\ loc[t].i <= Len(loc[t].names)
             /\ loc[t].names[loc[t].i] = MatcherSentinel) =>
                sessions' = sessions
       /\ \A k \in DOMAIN sessions' :
            MatcherSentinel \notin DOMAIN sessions'[k].attendance_records]_vars

\* C10 witness: a record call naming only the sentinel, twice, is at the end
\* of its loop on a session that has counters.
C10_Witness ==
    \E t \in Threads :
        /\ pc[t] = "record_loop"
        /\ loc[t].names = <<MatcherSentinel, MatcherSentinel>>
        /\ loc[t].i > Len(loc[t].names)
        /\ IsActive(sessions, KeyOf(t))
        /\ sessions[KeyOf(t)].attendance_records # EmptyDict

\* C11: a start that passes its check finds the key without an active
\* session and leaves the slot active, with no counters, the time of the
\* call as start_time and the given session_name or, when none is given,
\* the key followed by "_session"; a key becomes active in no other way.
C11_StartWritesFreshSlot ==
    [][/\ \A t \in Threads :
            (pc[t] = "start_write" /\ Steps(t)) =>
                LET k == KeyOf(t)
                    given == loc[t].session_name
                IN /\ ~IsActive(sessions, k)
                   /\ k \in DOMAIN sessions'
                   /\ sessions'[k].is_active = TRUE
                   /\ sessions'[k].attendance_records = EmptyDict
                   /\ sessions'[k].start_time = now
                   /\ sessions'[k].session_name =
                        (IF given = NoName THEN <<k, "_session">> ELSE given)
                   /\ result'[t].status = "started"
       /\ \A k \in Keys :
            (~IsActive(sessions, k) /\ IsActive(sessions', k)) =>
                \E t \in Threads : pc[t] = "start_write" /\ KeyOf(t) = k
                                      /\ Steps(t)]_vars

\* C11 witness: a start without a session_name has just returned 'started'
\* for a key at a later time than the clock's origin, and the slot carries
\* the defaulted name and that time.
C11_Witness ==
    \E t \in Threads :
        /\ pc[t] = "done"
        /\ req[t].op = "start"
        /\ result[t].status = "started"
        /\ now > 0
        /\ sessions[KeyOf(t)].start_time = now
        /\ sessions[KeyOf(t)].session_name = <<KeyOf(t), "_session">>

\* C12: no step of a get_session_status request changes the registry, and
\* the request that reads the registry returns, creating no slot: for a key
\* without a slot, inactive with no name and no start time; for a key with
\* a slot, that slot's activity flag, name and start time.
C12_StatusReadsOnly ==
    [][\A t \in Threads :
          /\ (req[t].op = "status" /\ Steps(t)) => sessions' = sessions
          /\ (pc[t] = "status_read" /\ Steps(t)) =>
                LET k == KeyOf(t)
                    r == result'[t]
                IN /\ pc'[t] = "done"
                   /\ r.status = "status" /\ r.code = 200
                   /\ r.summary.class_id = k
                   /\ DOMAIN sessions' = DOMAIN sessions
                   /\ k \notin DOMAIN sessions =>
                        /\ r.session_active = FALSE
                        /\ r.summary.session_name = NoName
                        /\ r.summary.start_time = NoTime
                   /\ k \in DOMAIN sessions =>
                        /\ r.session_active = sessions[k].is_active
                        /\ r.summary.session_name = sessions[k].session_name
                        /\ r.summary.start_time = sessions[k].start_time]_vars

\* C12 witness: a status request on a key that has no slot has returned,
\* and the registry still has no slot for it.
C12_Witness ==
    \E t \in Threads :
        /\ pc[t] = "done"
        /\ req[t].op = "status"
        /\ result[t].status = "status"
        /\ KeyOf(t) \notin DOMAIN sessions

\* A status request on a key with an active, named session has returned.
C12_WitnessActive ==
    \E t \in Threads :
        /\ pc[t] = "done"
        /\ req[t].op = "status"
        /\ result[t].session_active = TRUE
        /\ result[t].summary.session_name \in GivenNames

\* C13: the step of clear_session_data that writes the registry always
\* completes.  With a class_id it leaves that key's slot inactive, without
\* name, start time or counters, whatever the slot was, and every other
\* key's slot as it was; without one it leaves no slot at all, so that no
\* key is active.
C13_ClearResets ==
    [][\A t \in Threads :
          (pc[t] = "clear_write" /\ Steps(t)) =>
              LET k == KeyOf(t)
              IN /\ k # NoKey =>
                      /\ DOMAIN sessions' = DOMAIN sessions \cup {k}
                      /\ IsCanonicalInactive(sessions'[k])
                      /\ \A other \in DOMAIN sessions \ {k} :
                             sessions'[other] = sessions[other]
                 /\ k = NoKey =>
                      /\ DOMAIN sessions' = {}
                      /\ \A other \in Keys : ~IsActive(sessions', other)
                 /\ req[t].op = "clear" =>
                      /\ pc'[t] = "done"
                      /\ result'[t].status = "cleared"]_vars

\* C13 witness: a clear of one key has just returned, that key has a slot,
\* and the other key's session is still active.
C13_Witness ==
    \E t \in Threads :
        /\ pc[t] = "done"
        /\ req[t].op = "clear"
        /\ KeyOf(t) = "CS101"
        /\ "CS101" \in DOMAIN sessions
        /\ IsActive(sessions, "CS102")
        /\ calls = MaxCalls

\* A clear without a key has just returned and the registry has no slot.
C13_WitnessAll ==
    \E t \in Threads :
        /\ pc[t] = "done"
        /\ req[t].op = "clear"
        /\ KeyOf(t) = NoKey
        /\ calls = MaxCalls
        /\ sessions = << >>

\* C14 (as claimed): the duration_seconds of every summary a stop has built
\* is the end time minus the start time floored to whole seconds, or 0
\* when the slot had no start time, and is never negative.
C14_DurationFlooredNonNegative ==
    \A t \in Threads :
        pc[t] = "stop_reset" =>
            LET s == loc[t].summary
            IN /\ s.start_time # NoTime =>
                    s.duration_seconds =
                        (s.end_time - s.start_time) \div TicksPerSecond
               /\ s.start_time = NoTime => s.duration_seconds = 0
               /\ s.duration_seconds >= 0

\* C14: a state in which a stop has built a summary with a negative
\* duration: the clock was set back by more than a second since the start.
C14_NegativeDuration ==
    \E t \in Threads :
        /\ pc[t] = "stop_reset"
        /\ loc[t].summary.duration_seconds < 0
        /\ loc[t].summary.end_time < loc[t].summary.start_time

\* The store a finished recognition was matched against, in iteration
\* order, and the similarity of its face to the j-th stored embedding.
StoreOf(t) == Flatten(embeddings_pkl)

SimTo(t, j) == cosine_similarity(loc[t].face, StoreOf(t)[j].embedding)

\* The similarity of the face to the j-th stored embedding is the highest
\* in the store.
IsBestAt(t, j) ==
    \A other \in DOMAIN StoreOf(t) : SimTo(t, other) <= SimTo(t, j)

Matched(t) == pc[t] = "done" /\ req[t].op = "recognize"

\* C15: when the best similarity of the face to a stored embedding is
\* exactly the threshold, find_match returns a person who owns an
\* embedding at that similarity, with that similarity, not the sentinel.
C15_ThresholdInclusive ==
    \A t \in Threads :
        Matched(t) =>
            \A j \in DOMAIN StoreOf(t) :
                (IsBestAt(t, j) /\ SimTo(t, j) = SIMILARITY_THRESHOLD) =>
                    /\ result[t].name # MatcherSentinel
                    /\ result[t].confidence = SIMILARITY_THRESHOLD
                    /\ \E o \in DOMAIN StoreOf(t) :
                          /\ StoreOf(t)[o].person = result[t].name
                          /\ SimTo(t, o) = SIMILARITY_THRESHOLD

\* C15 witness: a match has returned alice, whose embedding is at exactly
\* the threshold, the best in a store that also holds a worse one of bob.
C15_Witness ==
    \E t \in Threads :
        /\ Matched(t)
        /\ result[t].name = "alice"
        /\ result[t].confidence = SIMILARITY_THRESHOLD
        /\ \E j \in DOMAIN StoreOf(t) :
              /\ StoreOf(t)[j].person = "bob"
              /\ SimTo(t, j) < SIMILARITY_THRESHOLD

\* C16: when several stored embeddings share the highest similarity to the
\* face and it reaches the threshold, find_match returns the person of the
\* first of them in the store's iteration order.
C16_FirstSeenWins ==
    \A t \in Threads :
        Matched(t) =>
            \A j, l \in DOMAIN StoreOf(t) :
                (/\ j < l
                 /\ IsBestAt(t, j) /\ IsBestAt(t, l)
                 /\ \A before \in 1..(j - 1) : ~IsBestAt(t, before)
                 /\ SimTo(t, j) >= SIMILARITY_THRESHOLD) =>
                    result[t].name = StoreOf(t)[j].person

\* C16 witness: bob comes first in the store, bob and alice each have an
\* embedding at the same, highest similarity above the threshold, and the
\* match has returned bob.
C16_Witness ==
    \E t \in Threads :
        /\ Matched(t)
        /\ result[t].name = "bob"
        /\ result[t].confidence > SIMILARITY_THRESHOLD
        /\ \E j, l \in DOMAIN StoreOf(t) :
              /\ j < l
              /\ StoreOf(t)[j].person = "bob"
              /\ StoreOf(t)[l].person = "alice"
              /\ IsBestAt(t, j) /\ IsBestAt(t, l)

\* C17 (as claimed): when no stored embedding reaches the threshold,
\* find_match returns the sentinel with the highest similarity of the face
\* to any stored embedding, whatever the store holds.
C17_NoMatchReportsBestObserved ==
    \A t \in Threads :
        Matched(t) =>
            \A j \in DOMAIN StoreOf(t) :
                (IsBestAt(t, j) /\ SimTo(t, j) < SIMILARITY_THRESHOLD) =>
                    /\ result[t].name = MatcherSentinel
                    /\ result[t].confidence = SimTo(t, j)

\* C17: a match against a store whose embeddings are all at a negative
\* similarity has returned the sentinel with a score of 0.
C17_ScoreNeverObserved ==
    \E t \in Threads :
        /\ Matched(t)
        /\ StoreOf(t) # << >>
        /\ \A j \in DOMAIN StoreOf(t) : SimTo(t, j) < 0
        /\ result[t].name = MatcherSentinel
        /\ result[t].confidence = 0

\* The persons of a store loaded for a match.
LoadedPersons(t) ==
    {loc[t].embeddings_db[i].person : i \in DOMAIN loc[t].embeddings_db}

\* C18: the prune step of manage_embeddings leaves in the dict exactly the
\* persons it held that have a folder, each with the entry it had; the
\* save writes that dict to the store; and a match against a store returns
\* a person of that store or the sentinel, so never a person pruned from it.
C18_PruneKeepsCatalogued ==
    [][\A t \in Threads :
          /\ (pc[t] = "update_prune" /\ Steps(t)) =>
                /\ PersonsOf(loc'[t].embeddings) =
                       PersonsOf(loc[t].embeddings) \cap Folders(images_dir)
                /\ \A i \in DOMAIN loc'[t].embeddings :
                      \E j \in DOMAIN loc[t].embeddings :
                          loc'[t].embeddings[i] = loc[t].embeddings[j]
          /\ (pc[t] = "update_save" /\ Steps(t)) =>
                embeddings_pkl' = loc[t].embeddings
          /\ (pc[t] = "recognize_enter" /\ Steps(t)) =>
                LoadedPersons(t)' \subseteq PersonsOf(embeddings_pkl)
          /\ (pc[t] = "match_loop" /\ pc'[t] = "done") =>
                result'[t].name \in LoadedPersons(t) \cup {MatcherSentinel}]_vars

\* C18 witness: a prune against the folders {alice} has just cut the dict
\* loaded from a store of alice and bob down to alice.
C18_Witness ==
    \E t \in Threads :
        /\ pc[t] = "update_save"
        /\ Folders(images_dir) = {"alice"}
        /\ PersonsOf(embeddings_pkl) = {"alice", "bob"}
        /\ PersonsOf(loc[t].embeddings) = {"alice"}

\* C19 (as claimed): whenever a recognition loads the store to match
\* against it, every person in the store has a folder, and the match
\* returns a person who has a folder or the sentinel.
C19_MatchedStoreIsCatalogued ==
    [][\A t \in Threads :
          /\ (pc[t] = "recognize_enter" /\ Steps(t)) =>
                PersonsOf(embeddings_pkl) \subseteq Folders(images_dir)
          /\ (pc[t] = "match_loop" /\ pc'[t] = "done") =>
                result'[t].name \in Folders(images_dir) \cup {MatcherSentinel}]_vars

\* C19: a recognition has returned a student whose folder had been
\* removed by then and whose embeddings no update had pruned.
C19_RemovedStudentRecognised ==
    \E t \in Threads :
        /\ Matched(t)
        /\ result[t].name \in Students \ Folders(images_dir)
        /\ result[t].name \in PersonsOf(embeddings_pkl)

\* The status claimed for a count and a duration greater than 0.
ClaimedStatus(count, duration) ==
    IF 4 * count >= duration THEN "present" ELSE "absent"

\* C20: for a duration greater than 0, the document /stop_session saves
\* for a person of the summary, and the document main.save_attendance
\* saves for a person of its attendance, carry 'present' exactly when four
\* times the count is at least the duration and 'absent' otherwise; the
\* two classify every count and duration greater than 0 alike.
C20_StatusByQuarter ==
    [][\A t \in Threads :
          /\ (pc[t] = "hstop_loop" /\ loc[t].todo # << >> /\ Steps(t)
                /\ loc[t].summary.duration_seconds > 0
                /\ attendance_docs' # attendance_docs) =>
                LET person == Head(loc[t].todo)
                    count == loc[t].summary.attendance_records[person]
                    doc == attendance_docs'[<<KeyOf(t), person>>]
                IN /\ doc.status =
                        ClaimedStatus(count, loc[t].summary.duration_seconds)
                   /\ doc.presence_time = count
          /\ (pc[t] = "mark_save" /\ Steps(t)
                /\ attendance_docs' # attendance_docs) =>
                \A person \in DOMAIN loc[t].attendance_records :
                    LET rec == loc[t].attendance_records[person]
                        doc == attendance_docs'[<<KeyOf(t), person>>]
                    IN rec.session_duration > 0 =>
                         /\ doc.status = ClaimedStatus(rec.presence_time,
                                                       rec.session_duration)
                         /\ doc.status =
                              AttendanceStatus(rec.presence_time,
                                               rec.session_duration)]_vars

\* C20 witness: /stop_session has saved, for one session with a duration
\* greater than 0, alice as present and bob as absent.
C20_Witness ==
    \E t \in Threads :
        /\ req[t].op = "h_stop"
        /\ pc[t] = "done"
        /\ {<<"CS101", "alice">>, <<"CS101", "bob">>} \subseteq DOMAIN attendance_docs
        /\ attendance_docs[<<"CS101", "alice">>].status = "present"
        /\ attendance_docs[<<"CS101", "bob">>].status = "absent"
        /\ attendance_docs[<<"CS101", "bob">>].session_duration > 0

\* main.save_attendance has saved a person as present and one as absent.
C20_WitnessMark ==
    \E t \in Threads :
        /\ req[t].op = "mark"
        /\ pc[t] = "done"
        /\ {<<"CS101", "alice">>, <<"CS101", "bob">>} \subseteq DOMAIN attendance_docs
        /\ attendance_docs[<<"CS101", "alice">>].status = "present"
        /\ attendance_docs[<<"CS101", "bob">>].status = "absent"

\* The /stop_session half of C21: with a duration of 0 the save loop goes
\* on without failing and every document it writes says 'absent'.
HandlerZeroDurationIsAbsent ==
    \A t \in Threads :
        (pc[t] = "hstop_loop" /\ loc[t].todo # << >> /\ Steps(t)
           /\ loc[t].summary.duration_seconds = 0) =>
            /\ pc'[t] = "hstop_loop"
            /\ attendance_docs' # attendance_docs =>
                 attendance_docs'[<<KeyOf(t), Head(loc[t].todo)>>].status
                     = "absent"

\* The main.save_attendance half of C21: the call raises no
\* ZeroDivisionError, and every record it prepares for a session_length
\* of 0 says 'absent'.
SaveZeroLengthIsAbsent ==
    \A t \in Threads :
        (pc[t] = "mark_enter" /\ Steps(t)) =>
            /\ pc'[t] = "done" => result'[t].status # "ZeroDivisionError"
            /\ pc'[t] = "mark_save" =>
                 \A person \in DOMAIN loc'[t].attendance_records :
                     LET rec == loc'[t].attendance_records[person]
                     IN rec.session_duration = 0 => rec.status = "absent"

\* C21 (as claimed): for a duration of 0, neither the /stop_session
\* handler nor main.save_attendance fails on a division by zero, and both
\* give every identity the status 'absent'.
C21_ZeroDurationIsAbsent ==
    [][HandlerZeroDurationIsAbsent /\ SaveZeroLengthIsAbsent]_vars

\* C21: what holds of the handler alone.
C21_HandlerOnly == [][HandlerZeroDurationIsAbsent]_vars

\* C21: a call of mark_attendance with a session_length of 0 and somebody
\* in the attendance has ended in ZeroDivisionError.
C21_DivisionByZero ==
    \E t \in Threads :
        /\ pc[t] = "done"
        /\ req[t].op = "mark"
        /\ result[t].status = "ZeroDivisionError"

\* /stop_session has saved somebody as absent for a duration of 0.
C21_HandlerWitness ==
    \E t \in Threads :
        /\ pc[t] = "done"
        /\ req[t].op = "h_stop"
        /\ \E id \in DOMAIN attendance_docs :
              /\ attendance_docs[id].session_duration = 0
              /\ attendance_docs[id].status = "absent"

\* The step of thread t that answers a /stop_session request which stopped
\* an active session (app.py:190-207).
HStopAnswers(t) ==
    /\ pc[t] = "hstop_loop"
    /\ loc[t].todo = << >>
    /\ pc'[t] = "done"

\* Some persistence call of the request of thread t failed: a record was
\* not counted as saved, or the session document is not in the store after
\* save_session_data.
PersistenceFailed(t) ==
    \/ loc[t].success_count
           < Cardinality(DOMAIN loc[t].summary.attendance_records)
    \/ <<KeyOf(t), now>> \notin DOMAIN session_docs'

\* The answer tells the caller of a failure: it is not a 200, or it counts
\* fewer records saved than students.
FailureReported(r) ==
    \/ r.code # 200
    \/ r.records_saved < r.total_students

\* C22 (as claimed): when /stop_session stopped an active session and a
\* later persistence call failed, the slot is inactive and empty after the
\* request and the failure is reported to the caller.
C22_FailedSaveIsReported ==
    [][\A t \in Threads :
          (HStopAnswers(t) /\ PersistenceFailed(t)) =>
              /\ IsCanonicalInactive(sessions'[KeyOf(t)])
              /\ FailureReported(result'[t])]_vars

\* C22: what holds: whatever the persistence calls did, the slot stays
\* stopped from the stop to the answer.
C22_SlotStaysStopped ==
    [][\A t \in Threads :
          (pc[t] \in {"hstop_parse", "hstop_loop"}
             /\ ~HandlerSeesInactive(loc[t].stop_resp) /\ Steps(t)) =>
              /\ IsCanonicalInactive(sessions[KeyOf(t)])
              /\ IsCanonicalInactive(sessions'[KeyOf(t)])]_vars

\* C22: save_session_data failed after every record was saved, and the
\* answer is the 200 of a full success.
C22_SilentSessionSaveFailure ==
    \E t \in Threads :
        /\ pc[t] = "done"
        /\ req[t].op = "h_stop"
        /\ result[t].code = 200
        /\ result[t].total_students > 0
        /\ result[t].records_saved = result[t].total_students
        /\ session_docs = EmptyDict
        /\ IsCanonicalInactive(sessions[KeyOf(t)])

\* C23 (as claimed): a /recognize_image request whose recording finds the
\* session of its key not active answers its caller with the not-active
\* outcome of record_recognition_results_for_class.
C23_NotActiveReachesCaller ==
    [][\A t \in Threads :
          (req[t].op = "h_recognize" /\ pc[t] = "record_check"
             /\ RecordRefused(sessions, KeyOf(t)) /\ Steps(t)) =>
              /\ pc'[t] = "done"
              /\ result'[t].status = "inactive"]_vars

\* C23: what holds of the function itself: the refused recording returns
\* 'inactive' and changes no slot.
C23_RefusedRecordingReturnsInactive ==
    [][\A t \in Threads :
          (req[t].op = "record" /\ pc[t] = "record_check"
             /\ RecordRefused(sessions, KeyOf(t)) /\ Steps(t)) =>
              /\ pc'[t] = "done"
              /\ result'[t].status = "inactive"
              /\ sessions' = sessions]_vars

\* C23: a /recognize_image request on a key no session was ever started on
\* has answered with the recognition result, in which somebody is named.
C23_NotActiveDropped ==
    \E t \in Threads :
        /\ pc[t] = "done"
        /\ req[t].op = "h_recognize"
        /\ KeyOf(t) # NoKey
        /\ KeyOf(t) \notin DOMAIN sessions
        /\ lock = NoThread
        /\ result[t].status = "success"
        /\ \E i \in DOMAIN result[t].names : IsCounted(result[t].names[i])

\* An entry of the result list is a result or an error entry.
IsResultEntry(r) == DOMAIN r = {"name", "confidence", "bounding_box"}

IsErrorEntry(r) == DOMAIN r = {"error"}

\* C24: recognize_faces_from_image returns a list with exactly one entry
\* per detected face, in detection order, each an error entry or the
\* (name, confidence, bounding_box) of that face, whichever faces failed.
C24_OneEntryPerFace ==
    \A t \in Threads :
        (pc[t] = "done" /\ req[t].op = "recognize_faces") =>
            /\ result[t].status = "success"
            /\ Len(result[t].results) = Len(loc[t].faces)
            /\ \A i \in DOMAIN loc[t].faces :
                  LET r == result[t].results[i]
                  IN \/ IsErrorEntry(r)
                     \/ /\ IsResultEntry(r)
                        /\ r = ResultEntry(loc[t].faces[i],
                                           Flatten(embeddings_pkl), i)

\* C24: a request has returned in which a face failed and a face after it
\* was matched to somebody of the store.
C24_Witness ==
    \E t \in Threads :
        /\ pc[t] = "done"
        /\ req[t].op = "recognize_faces"
        /\ \E i, j \in DOMAIN result[t].results :
              /\ i < j
              /\ IsErrorEntry(result[t].results[i])
              /\ IsResultEntry(result[t].results[j])
              /\ result[t].results[j].name \in Students

\* The dict `embeddings` maps person p to the embeddings of the images
\* his folder holds now.
HoldsCurrent(embeddings, dir, p) ==
    \E i \in DOMAIN embeddings :
        /\ embeddings[i].person = p
        /\ embeddings[i].embeddings = Encoded(dir[p])

\* C25 (as claimed): the encoding loop of manage_embeddings leaves every
\* person who has a folder mapped to the embeddings of the images now in
\* that folder, whether or not the dict already had an entry for him.
C25_UpdateEncodesCurrentImages ==
    [][\A t \in Threads :
          (pc[t] = "update_add" /\ Steps(t)) =>
              \A p \in Folders(images_dir) :
                  HoldsCurrent(loc'[t].embeddings, images_dir, p)]_vars

\* C25: what holds: the persons the dict did not hold are mapped to the
\* embeddings of their current images, and the entries it held are kept
\* as they were.
C25_OnlyNewPersonsEncoded ==
    [][\A t \in Threads :
          (pc[t] = "update_add" /\ Steps(t)) =>
              /\ \A p \in Folders(images_dir) \ PersonsOf(loc[t].embeddings) :
                    HoldsCurrent(loc'[t].embeddings, images_dir, p)
              /\ \A i \in DOMAIN loc[t].embeddings :
                    loc'[t].embeddings[i] = loc[t].embeddings[i]]_vars

\* C25: an update has run to its end and the store still maps a student
\* who has a folder to embeddings other than those of the images in it:
\* he was removed and enrolled again with other images.
C25_StaleAfterUpdate ==
    \E t \in Threads, p \in Students :
        /\ pc[t] = "done"
        /\ req[t].op = "update"
        /\ p \in Folders(images_dir)
        /\ p \in PersonsOf(embeddings_pkl)
        /\ ~HoldsCurrent(embeddings_pkl, images_dir, p)

\* The slot of key k is the same before and after the step: there is none,
\* or it has the same activity flag, name, start time and counters.
SlotUnchanged(k) ==
    /\ k \in DOMAIN sessions <=> k \in DOMAIN sessions'
    /\ k \in DOMAIN sessions => sessions'[k] = sessions[k]

\* C26: every step of a start, stop, record or status call on a key leaves
\* the slot of every other key as it was, whatever the other thread is
\* doing on that other key.
C26_OtherSlotsUnchanged ==
    [][\A t \in Threads :
          (Steps(t) /\ req[t].op \in {"start", "stop", "record", "status"}) =>
              \A k \in Keys \ {KeyOf(t)} : SlotUnchanged(k)]_vars

\* C26 witness: a start or a stop on one class has just written its slot
\* and returned while the session of the other class is active and holds
\* counts.
C26_Witness ==
    \E t \in Threads :
        /\ pc[t] = "done"
        /\ req[t].op \in {"start", "stop"}
        /\ result[t].status \in {"started", "summary"}
        /\ \E k \in Keys \ {KeyOf(t)} :
              /\ IsActive(sessions, k)
              /\ sessions[k].attendance_records # EmptyDict

\* Thread t is in no call, or its call has returned.
Returned(t) == pc[t] \in {"idle", "done"}

\* C27: under fair scheduling every call of start, stop, record, status
\* and clear eventually returns, and whenever every call has returned the
\* registry lock is held by no thread.
C27_CallsReturnAndLockIsFree ==
    /\ \A t \in Threads : (pc[t] # "idle") ~> (pc[t] = "done")
    /\ []((\A t \in Threads : Returned(t)) => lock = NoThread)

\* C27 witness: a call has just returned on the Conflict or the NotActive
\* path with the lock free, and the other thread, which waits for the
\* lock, can take it.
C27_Witness ==
    \E t, u \in Threads :
        /\ pc[t] = "done"
        /\ result[t].status \in {"already_active", "inactive"}
        /\ lock = NoThread
        /\ t # u
        /\ pc[u] \in WaitLabels
        /\ KeyOf(u) # NoKey

====
